---- MODULE Spec2Model ----
(***************************************************************************)
(* A model of usincometax: the TXF encoder (taxexchangeformat.py) and the  *)
(* four drivers that call it (cashdonations.py, estimatedtaxpayments.py,   *)
(* form1099inthtml.py, form1099intpdf.py).                                 *)
(*                                                                         *)
(* A Python str is a sequence of one-character strings, so that slicing,   *)
(* padding, stripping and character deletion are computed and not assumed. *)
(* Python's None is the value None below, which is no str.                 *)
(* The output stream `out` is the sequence of the texts written by the     *)
(* print calls of _txf_write, each with the terminator print appended.     *)
(***************************************************************************)
EXTENDS Integers, Sequences, FiniteSets, TLC

VARIABLES
    out,            \* stdout: one element per print call, terminator included
    exc,            \* "none", or the name of the exception that ended the run
    pc,             \* position of the running program
    driver,         \* which program runs
    omit_header,    \* --omit-header
    replace_dates,  \* --replace-dates (cash donations)
    csv,            \* the rows csv.DictReader yields for the input file
    rows,           \* the in-memory list of rows (dicts, mutated in place)
    idx,            \* number of rows already written
    parser,         \* the TreasuryDirectHtmlParser object
    ndata,          \* number of handle_data calls made so far
    text_boxes,     \* the text boxes get_text_boxes finds on the PDF page
    extracted,      \* pdf_to_txf's locals payer_name and interest_income
    fed,            \* history: the data handed to handle_data, in order
    call            \* the encoder operation called last, with its arguments

vars == <<out, exc, pc, driver, omit_header, replace_dates, csv, rows, idx,
          parser, ndata, text_boxes, extracted, fed, call>>

---------------------------------------------------------------------------
(* Bounds of the model.                                                    *)

\* how many characters a sample field runs over its column width
MaxExtra == 1
\* length up to which every amount string over AmountAlphabet is enumerated
MaxAmtLen == 3
\* number of rows of a CSV file
MaxRows == 3
\* number of handle_data calls the HTML parser receives
MaxData == 5

---------------------------------------------------------------------------
(* Python values and the str operations the code uses.                     *)

None == <<"None">>

Rep(c, n) == [i \in 1..n |-> c]

\* the characters str.lstrip() removes (ASCII whitespace a TLA+ string can name)
Whitespace == {" ", "\t", "\n", "\r", "\f"}

RECURSIVE lstrip(_)
lstrip(s) == IF s # <<>> /\ Head(s) \in Whitespace THEN lstrip(Tail(s)) ELSE s

RECURSIVE rstrip(_, _)
rstrip(s, chars) ==
    IF s # <<>> /\ s[Len(s)] \in chars THEN rstrip(SubSeq(s, 1, Len(s) - 1), chars) ELSE s

strip(s) == rstrip(lstrip(s), Whitespace)

startswith(s, prefix) == Len(s) >= Len(prefix) /\ SubSeq(s, 1, Len(prefix)) = prefix

\* str.translate with a table that maps the characters of `deleted` to None
RECURSIVE translate(_, _)
translate(s, deleted) ==
    IF s = <<>> THEN <<>>
    ELSE (IF Head(s) \in deleted THEN <<>> ELSE <<Head(s)>>) \o translate(Tail(s), deleted)

\* format(s, 'W.P') of a str: cut to P characters, then padded on the right to W
str_format(s, width, precision) ==
    LET t == IF Len(s) > precision THEN SubSeq(s, 1, precision) ELSE s
    IN  t \o Rep(" ", width - Len(t))

DecimalDigits == <<"0", "1", "2", "3", "4", "5", "6", "7", "8", "9">>

\* str(n) of a non-negative int, as in f'N{ref_num}'
RECURSIVE int_str(_)
int_str(n) ==
    IF n < 10 THEN <<DecimalDigits[n + 1]>>
    ELSE int_str(n \div 10) \o <<DecimalDigits[(n % 10) + 1]>>

\* the result of a call that writes: the stream after it and the exception raised
Return(o) == [out |-> o, exc |-> "none"]
Raise(o, e) == [out |-> o, exc |-> e]

---------------------------------------------------------------------------
(* taxexchangeformat.py                                                    *)

_txf_write(o, obj) == Append(o, obj \o <<"\r", "\n">>)

_txf_normalize_amount_keep_minus(amount) ==
    LET a == translate(amount, {"$", ","})
    IN  IF startswith(a, <<".">>) THEN <<"0">> \o a ELSE a

_txf_normalize_amount(amount) ==
    LET a == translate(amount, {"$", ",", "-"})
    IN  IF startswith(a, <<".">>) THEN <<"0">> \o a ELSE a

_txf_expense(amount) ==
    LET a == _txf_normalize_amount(amount)
    IN  IF a = <<"0", ".", "0", "0">> THEN a ELSE <<"-">> \o a

_txf_income(amount) == _txf_normalize_amount(amount)

_txf_write_record_format_1_no_tag(o, amount, ref_num, copy, line, detail) ==
    LET o1 == _txf_write(o, <<"T", "S">>)
        o2 == _txf_write(o1, <<"N">> \o int_str(ref_num))
        o3 == _txf_write(o2, <<"C">> \o int_str(copy))
        o4 == _txf_write(o3, <<"L">> \o int_str(line))
        o5 == _txf_write(o4, <<"$">> \o amount)
        o6 == IF detail # None THEN _txf_write(o5, <<"X">> \o detail) ELSE o5
    IN  Return(_txf_write(o6, <<"^">>))

_txf_write_record_format_1(o, amount, ref_num, copy, line, detail) ==
    LET o1 == _txf_write(o, IF detail = None THEN <<"T", "S">> ELSE <<"T", "D">>)
        o2 == _txf_write(o1, <<"N">> \o int_str(ref_num))
        o3 == _txf_write(o2, <<"C">> \o int_str(copy))
        o4 == _txf_write(o3, <<"L">> \o int_str(line))
        o5 == _txf_write(o4, <<"$">> \o amount)
        o6 == IF detail # None THEN _txf_write(o5, <<"X">> \o detail) ELSE o5
    IN  Return(_txf_write(o6, <<"^">>))

\* 'P' + description raises TypeError when description is None
_txf_write_record_format_3(o, amount, description, ref_num, copy, line, detail) ==
    LET o1 == _txf_write(o, IF detail = None THEN <<"T", "S">> ELSE <<"T", "D">>)
        o2 == _txf_write(o1, <<"N">> \o int_str(ref_num))
        o3 == _txf_write(o2, <<"C">> \o int_str(copy))
        o4 == _txf_write(o3, <<"L">> \o int_str(line))
        o5 == _txf_write(o4, <<"$">> \o amount)
    IN  IF description = None THEN Raise(o5, "TypeError")
        ELSE LET o6 == _txf_write(o5, <<"P">> \o description)
                 o7 == IF detail # None THEN _txf_write(o6, <<"X">> \o detail) ELSE o6
             IN  Return(_txf_write(o7, <<"^">>))

_txf_write_record_format_6_state_first(o, date, amount, state, ref_num, copy, line, detail) ==
    LET o1 == _txf_write(o, IF detail = None THEN <<"T", "S">> ELSE <<"T", "D">>)
        o2 == _txf_write(o1, <<"N">> \o int_str(ref_num))
        o3 == _txf_write(o2, <<"C">> \o int_str(copy))
        o4 == _txf_write(o3, <<"L">> \o int_str(line))
    IN  IF date = None THEN Raise(o4, "TypeError")
        ELSE LET o5 == _txf_write(o4, <<"D">> \o date)
             IN  IF state = None THEN Raise(o5, "TypeError")
                 ELSE LET o6 == _txf_write(o5, <<"P">> \o state)
                          o7 == _txf_write(o6, <<"$">> \o amount)
                          o8 == IF detail # None THEN _txf_write(o7, <<"X">> \o detail)
                                ELSE o7
                      IN  Return(_txf_write(o8, <<"^">>))

\* 'D' + date and 'P' + state raise TypeError when the operand is None
_txf_write_record_format_6(o, date, amount, state, ref_num, copy, line, detail) ==
    LET o1 == _txf_write(o, IF detail = None THEN <<"T", "S">> ELSE <<"T", "D">>)
        o2 == _txf_write(o1, <<"N">> \o int_str(ref_num))
        o3 == _txf_write(o2, <<"C">> \o int_str(copy))
        o4 == _txf_write(o3, <<"L">> \o int_str(line))
    IN  IF date = None THEN Raise(o4, "TypeError")
        ELSE LET o5 == _txf_write(o4, <<"D">> \o date)
                 o6 == _txf_write(o5, <<"$">> \o amount)
             IN  IF state = None THEN Raise(o6, "TypeError")
                 ELSE LET o7 == _txf_write(o6, <<"P">> \o state)
                          o8 == IF detail # None THEN _txf_write(o7, <<"X">> \o detail)
                                ELSE o7
                      IN  Return(_txf_write(o8, <<"^">>))

\* `today` is datetime.date.today().strftime('%m/%d/%Y')
write_header(o, program, today) ==
    LET o1 == _txf_write(o, <<"V", "0", "4", "2">>)
        o2 == _txf_write(o1, <<"A">> \o program)
        o3 == _txf_write(o2, <<"D">> \o today)
    IN  Return(_txf_write(o3, <<"^">>))

\* the three if-statements run in order; an exception ends the call
write_1099int(o, payer, box_1, box_3, box_4) ==
    LET r1 == IF box_1 # None
              THEN _txf_write_record_format_3(o, _txf_income(box_1), payer, 287, 1, 1, None)
              ELSE Return(o)
        r2 == IF r1.exc # "none" THEN r1
              ELSE IF box_3 # None
              THEN _txf_write_record_format_3(r1.out, _txf_income(box_3), payer, 288, 1, 1, None)
              ELSE r1
    IN  IF r2.exc # "none" THEN r2
        ELSE IF box_4 # None
        THEN _txf_write_record_format_3(r2.out, _txf_expense(box_4), payer, 616, 1, 1, None)
        ELSE r2

\* f'{date:10.10} {account:30.30} {check_number:6.6} {payee:40.40}{memo:40.40} {category:.15}'
detail_string_padded_category(date, account, check_number, payee, memo, category) ==
    str_format(date, 10, 10) \o <<" ">> \o str_format(account, 30, 30) \o <<" ">>
        \o str_format(check_number, 6, 6) \o <<" ">> \o str_format(payee, 40, 40)
        \o str_format(memo, 40, 40) \o <<" ">> \o str_format(category, 15, 15)

detail_string(date, account, check_number, payee, memo, category) ==
    str_format(date, 10, 10) \o <<" ">> \o str_format(account, 30, 30) \o <<" ">>
        \o str_format(check_number, 6, 6) \o <<" ">> \o str_format(payee, 40, 40)
        \o str_format(memo, 40, 40) \o <<" ">> \o str_format(category, 0, 15)

\* format(None, '10.10') raises TypeError
AnyNone(fields) == \E i \in DOMAIN fields : fields[i] = None

CashDonationCategory == <<"C", "a", "s", "h", " ", "d", "o", "n", "a", "t", "i", "o", "n">>
FedEstTaxCategory ==
    <<"F", "e", "d", " ", "q", "t", "r", " ", "e", "s", "t", " ", "t", "a", "x">>
StaEstTaxCategory ==
    <<"S", "t", "a", " ", "q", "t", "r", " ", "e", "s", "t", " ", "t", "a", "x">>

\* category.lstrip() raises AttributeError on None, before anything is written;
\* the arguments of the record writer are evaluated before it is called
write_cash_donation(o, date, payee, amount, account, check_number, memo, category) ==
    IF category = None THEN Raise(o, "AttributeError")
    ELSE IF amount = None THEN Raise(o, "AttributeError")
    ELSE IF AnyNone(<<date, account, check_number, payee, memo>>) THEN Raise(o, "TypeError")
    ELSE LET cat == IF lstrip(category) = <<>> THEN CashDonationCategory ELSE category
         IN  _txf_write_record_format_1(o, _txf_expense(amount), 280, 1, 1,
                 detail_string(date, account, check_number, payee, memo, cat))

write_cash_donations_summary(o, amount) ==
    IF amount = None THEN Raise(o, "AttributeError")
    ELSE _txf_write_record_format_1(o, _txf_expense(amount), 280, 1, 1, None)

write_federal_est_tax_payment(o, date, amount, account, check_number, payee, memo, category) ==
    IF category = None THEN Raise(o, "AttributeError")
    ELSE IF amount = None THEN Raise(o, "AttributeError")
    ELSE IF AnyNone(<<date, account, check_number, payee, memo>>) THEN Raise(o, "TypeError")
    ELSE LET cat == IF lstrip(category) = <<>> THEN FedEstTaxCategory ELSE category
         IN  _txf_write_record_format_6(o, date, _txf_expense(amount), <<"X", "X">>, 521, 1, 1,
                 detail_string(date, account, check_number, payee, memo, cat))

write_federal_est_tax_summary(o, amount) ==
    IF amount = None THEN Raise(o, "AttributeError")
    ELSE _txf_write_record_format_6(o, <<>>, _txf_expense(amount), <<"X", "X">>, 521, 1, 1, None)

write_state_est_tax_payment(o, date, amount, state, account, check_number, payee, memo, category) ==
    IF category = None THEN Raise(o, "AttributeError")
    ELSE IF amount = None THEN Raise(o, "AttributeError")
    ELSE IF AnyNone(<<date, account, check_number, payee, memo>>) THEN Raise(o, "TypeError")
    ELSE LET cat == IF lstrip(category) = <<>> THEN StaEstTaxCategory ELSE category
         IN  _txf_write_record_format_6(o, date, _txf_expense(amount), state, 522, 1, 1,
                 detail_string(date, account, check_number, payee, memo, cat))

write_state_est_tax_summary(o, amount, state) ==
    IF amount = None THEN Raise(o, "AttributeError")
    ELSE _txf_write_record_format_6(o, <<>>, _txf_expense(amount), state, 522, 1, 1, None)

---------------------------------------------------------------------------
(* Sample field values.  Each column gets a value shorter than its width   *)
(* and one that runs MaxExtra characters over it, with a distinct tail, so *)
(* that padding and truncation both happen and are visible.                *)

Program ==
    <<"u", "s", "i", "n", "c", "o", "m", "e", "t", "a", "x", " ",
      "2", "0", "2", "0", ".", "0", ".", "0">>

Todays == { <<"1", "1", "/", "0", "2", "/", "2", "0", "2", "6">>,
            <<"0", "4", "/", "1", "5", "/", "2", "0", "2", "1">> }

Date1 == <<"0", "1", "/", "0", "2", "/", "2", "0", "2", "1">>
Date2 == <<"1", "2", "/", "3", "1", "/", "2", "0", "2", "1">>
Various == <<"V", "a", "r", "i", "o", "u", "s">>

Dates == { Various, Rep("9", 10) \o Rep("z", MaxExtra) }
Accounts == { <<>>, Rep("a", 30) \o Rep("z", MaxExtra) }
CheckNumbers == { <<"1", "0", "1">>, Rep("7", 6) \o Rep("z", MaxExtra) }
Payees == { <<"R", "e", "d", " ", "C", "r", "o", "s", "s">>, Rep("p", 40) \o Rep("z", MaxExtra) }
Memos == { <<>>, Rep("m", 40) \o Rep("z", MaxExtra) }

Gift == <<"G", "i", "f", "t">>

Categories ==
    { <<>>, <<" ">>, <<"\t", " ">>, Gift, <<" ">> \o Gift,
      Rep("c", 15), Rep("c", 15) \o Rep("z", MaxExtra), Rep(" ", 15) \o Rep("x", MaxExtra) }

Amount125 == <<"1", "2", "5", ".", "0", "0">>
Amount1200 == <<"$", "1", ",", "2", "0", "0", ".", "0", "0">>
AmountZero == <<"0", ".", "0", "0">>

Amounts == { Amount125, AmountZero, Amount1200 }

\* a State column value; None when the row is shorter than the header
StateCodes == { <<"N", "Y">>, None }

\* a payer name: one line, several lines, or None when the extractor found none
Payers == { <<"B", "a", "n", "k">>, <<"A", "\n", "B">>, None }

\* a box value: None when absent
Boxes == { None, Amount1200, AmountZero, <<"-", ".", "5">> }

AmountAlphabet == {"$", ",", "-", ".", "0", "1"}

RawAmounts ==
    UNION { [1..n -> AmountAlphabet] : n \in 0..MaxAmtLen }
        \cup { Amount125, Amount1200, AmountZero, <<"0", ".", "0", "0", "0">>,
               <<" ", "0", ".", "0", "0">>, <<".", "5">> }

---------------------------------------------------------------------------
(* The parts of the state a specification does not use stay as they are.   *)

ParserInit ==
    [box_3 |-> None, box_4 |-> None, done |-> FALSE, found_1099_int |-> FALSE,
     found_payer_info |-> FALSE, found_1099_int_totals |-> FALSE, payer_name |-> None]

NoCall == [op |-> "none"]

NoCsv == [columns |-> {}, rows |-> <<>>]

NoneExtracted == [payer_name |-> None, interest_income |-> None]

InitIdle ==
    /\ out = <<>>
    /\ exc = "none"
    /\ omit_header = FALSE
    /\ replace_dates = FALSE
    /\ csv = NoCsv
    /\ rows = <<>>
    /\ idx = 0
    /\ parser = ParserInit
    /\ ndata = 0
    /\ text_boxes = <<>>
    /\ extracted = NoneExtracted
    /\ fed = <<>>

---------------------------------------------------------------------------
(* SpecAmount: the amount functions applied to a raw amount string.        *)

InitAmount ==
    /\ InitIdle
    /\ driver = "amount"
    /\ pc = "input"
    /\ \E a \in RawAmounts : call = [op |-> "input", amount |-> a, ret |-> None]

Applied(op, ret) ==
    /\ pc = "input"
    /\ call' = [op |-> op, amount |-> call.amount, ret |-> ret]
    /\ pc' = "done"
    /\ UNCHANGED <<fed, out, exc, driver, omit_header, replace_dates, csv, rows, idx,
                   parser, ndata, text_boxes, extracted>>

ApplyNormalize == Applied("_txf_normalize_amount", _txf_normalize_amount(call.amount))

ApplyExpense == Applied("_txf_expense", _txf_expense(call.amount))

ApplyIncome == Applied("_txf_income", _txf_income(call.amount))

NextAmount == ApplyNormalize \/ ApplyExpense \/ ApplyIncome

SpecAmount == InitAmount /\ [][NextAmount]_vars

---------------------------------------------------------------------------
(* SpecEncoder: one run that writes (or omits) the header and then calls   *)
(* one public write operation with sample arguments.                       *)

InitEncoder ==
    /\ InitIdle
    /\ driver = "encoder"
    /\ pc = "start"
    /\ call = NoCall

EncoderDone(r, c) ==
    /\ pc \in {"start", "ready"}
    /\ out' = r.out
    /\ exc' = r.exc
    /\ call' = c
    /\ pc' = "done"
    /\ UNCHANGED <<fed, driver, omit_header, replace_dates, csv, rows, idx, parser, ndata,
                   text_boxes, extracted>>

CallWriteHeader ==
    /\ pc = "start"
    /\ \E today \in Todays : out' = write_header(out, Program, today).out
    /\ pc' = "ready"
    /\ UNCHANGED <<fed, exc, call, driver, omit_header, replace_dates, csv, rows, idx, parser,
                   ndata, text_boxes, extracted>>

CallWrite1099Int ==
    \E payer \in Payers, box_1 \in Boxes, box_3 \in Boxes, box_4 \in Boxes :
        EncoderDone(write_1099int(out, payer, box_1, box_3, box_4),
                    [op |-> "write_1099int", payer |-> payer, box_1 |-> box_1,
                     box_3 |-> box_3, box_4 |-> box_4])

CallWriteCashDonation ==
    \E date \in Dates, payee \in Payees, amount \in Amounts, account \in Accounts,
       check_number \in CheckNumbers, memo \in Memos, category \in Categories :
        EncoderDone(write_cash_donation(out, date, payee, amount, account, check_number,
                                        memo, category),
                    [op |-> "write_cash_donation", date |-> date, payee |-> payee,
                     amount |-> amount, account |-> account,
                     check_number |-> check_number, memo |-> memo, category |-> category])

CallWriteCashDonationsSummary ==
    \E amount \in Amounts :
        EncoderDone(write_cash_donations_summary(out, amount),
                    [op |-> "write_cash_donations_summary", amount |-> amount])

CallWriteFederalEstTaxPayment ==
    \E date \in Dates, payee \in Payees, amount \in Amounts, account \in Accounts,
       check_number \in CheckNumbers, memo \in Memos, category \in Categories :
        EncoderDone(write_federal_est_tax_payment(out, date, amount, account, check_number,
                                                  payee, memo, category),
                    [op |-> "write_federal_est_tax_payment", date |-> date, payee |-> payee,
                     amount |-> amount, account |-> account,
                     check_number |-> check_number, memo |-> memo, category |-> category])

CallWriteFederalEstTaxSummary ==
    \E amount \in Amounts :
        EncoderDone(write_federal_est_tax_summary(out, amount),
                    [op |-> "write_federal_est_tax_summary", amount |-> amount])

CallWriteStateEstTaxPayment ==
    \E date \in Dates, payee \in Payees, amount \in Amounts, account \in Accounts,
       check_number \in CheckNumbers, memo \in Memos, category \in Categories,
       state \in StateCodes :
        EncoderDone(write_state_est_tax_payment(out, date, amount, state, account,
                                                check_number, payee, memo, category),
                    [op |-> "write_state_est_tax_payment", date |-> date, payee |-> payee,
                     amount |-> amount, account |-> account, state |-> state,
                     check_number |-> check_number, memo |-> memo, category |-> category])

CallWriteStateEstTaxSummary ==
    \E amount \in Amounts, state \in StateCodes :
        EncoderDone(write_state_est_tax_summary(out, amount, state),
                    [op |-> "write_state_est_tax_summary", amount |-> amount, state |-> state])

NextEncoder ==
    \/ CallWriteHeader
    \/ CallWrite1099Int
    \/ CallWriteCashDonation
    \/ CallWriteCashDonationsSummary
    \/ CallWriteFederalEstTaxPayment
    \/ CallWriteFederalEstTaxSummary
    \/ CallWriteStateEstTaxPayment
    \/ CallWriteStateEstTaxSummary

SpecEncoder == InitEncoder /\ [][NextEncoder]_vars

---------------------------------------------------------------------------
(* cashdonations.py                                                        *)
(*                                                                         *)
(* A row of csv.DictReader is a function from the column names of the      *)
(* header row to values: a str, or None for a column the row is too short  *)
(* to reach.  row['k'] raises KeyError when the file has no column k;      *)
(* row.get('k', '') is '' then.                                            *)

\* row.get(key, '')
get(row, key) == IF key \in DOMAIN row THEN row[key] ELSE <<>>

Restrict(row, columns) == [k \in columns |-> row[k]]

Payee1 == <<"R", "e", "d", " ", "C", "r", "o", "s", "s">>
Payee2 == <<"Z", "o", "o">>

CashRow(date, payee, amount, category) ==
    [k \in {"Date", "Payee", "Amount", "Category"} |->
        CASE k = "Date" -> date
          [] k = "Payee" -> payee
          [] k = "Amount" -> amount
          [] k = "Category" -> category]

\* donations of two payees on two dates, the row of the grand total, a donation
\* without a payee, a row that ends before Category, and one that ends after Date
CashRows ==
    { CashRow(Date1, Payee1, Amount125, Gift),
      CashRow(Date2, Payee1, Amount125, Gift),
      CashRow(Date1, Payee2, Amount125, <<>>),
      CashRow(<<>>, <<>>, Amount1200, <<>>),
      CashRow(Date2, <<>>, Amount125, Gift),
      CashRow(Date1, Payee1, Amount125, None),
      CashRow(Date1, None, None, None) }

CashColumnSets ==
    { {"Date", "Payee", "Amount"}, {"Date", "Payee", "Amount", "Category"}, {"Date", "Amount"} }

CsvFiles(columnSets, sampleRows) ==
    UNION { { [columns |-> c, rows |-> r] :
                r \in UNION { [1..n -> { Restrict(row, c) : row \in sampleRows }] :
                              n \in 0..MaxRows } } :
            c \in columnSets }

\* rows with row['Date'] = 'Various' for the rows at the positions `which`
_replace_dates_first_only(rs, which) ==
    [i \in 1..Len(rs) |->
        IF which # <<>> /\ i = which[1] THEN [rs[i] EXCEPT !["Date"] = Various] ELSE rs[i]]

_replace_dates(rs, which) ==
    [i \in 1..Len(rs) |->
        IF \E k \in 1..Len(which) : which[k] = i
        THEN [rs[i] EXCEPT !["Date"] = Various] ELSE rs[i]]

\* the dict under construction: its keys in insertion order, and for each key
\* the positions in rows of the rows (the same objects) of that payee
HasKey(map, key) == \E k \in 1..Len(map) : map[k].payee = key

AppendTo(map, key, i) ==
    [k \in 1..Len(map) |->
        IF map[k].payee = key THEN [map[k] EXCEPT !.rows = Append(@, i)] ELSE map[k]]

\* the loop of _map_rows_to_payees from row i on; rows_for_payees[payee] raises
\* KeyError for a payee of None, for which no list is made
RECURSIVE _map_rows_to_payees_from(_, _, _)
_map_rows_to_payees_from(rs, i, map) ==
    IF i > Len(rs) THEN [map |-> map, exc |-> "none"]
    ELSE IF "Payee" \notin DOMAIN rs[i] THEN [map |-> map, exc |-> "KeyError"]
    ELSE LET payee == rs[i]["Payee"]
             map1 == IF payee # None /\ ~HasKey(map, payee)
                     THEN Append(map, [payee |-> payee, rows |-> <<>>]) ELSE map
         IN  IF ~HasKey(map1, payee) THEN [map |-> map1, exc |-> "KeyError"]
             ELSE _map_rows_to_payees_from(rs, i + 1, AppendTo(map1, payee, i))

_map_rows_to_payees(rs) == _map_rows_to_payees_from(rs, 1, <<>>)

\* the inner loop: is there a row of the payee whose Date is not last_date
RECURSIVE SomeDateDiffers(_, _, _, _)
SomeDateDiffers(rs, payee_rows, k, last_date) ==
    IF k > Len(payee_rows) THEN FALSE
    ELSE IF rs[payee_rows[k]]["Date"] # last_date THEN TRUE
    ELSE SomeDateDiffers(rs, payee_rows, k + 1, last_date)

\* the loop of _replace_different_dates from the k-th payee on;
\* payee_rows[-1]['Date'] raises KeyError when the file has no Date column
RECURSIVE _replace_different_dates_from(_, _, _)
_replace_different_dates_from(rs, map, k) ==
    IF k > Len(map) THEN [rows |-> rs, exc |-> "none"]
    ELSE LET payee_rows == map[k].rows
         IN  IF Len(payee_rows) > 1
             THEN IF "Date" \notin DOMAIN rs[payee_rows[1]] THEN [rows |-> rs, exc |-> "KeyError"]
                  ELSE LET last_date == rs[payee_rows[Len(payee_rows)]]["Date"]
                       IN  IF SomeDateDiffers(rs, payee_rows, 1, last_date)
                           THEN _replace_different_dates_from(
                                    _replace_dates(rs, payee_rows), map, k + 1)
                           ELSE _replace_different_dates_from(rs, map, k + 1)
             ELSE _replace_different_dates_from(rs, map, k + 1)

_replace_different_dates(rs, map) == _replace_different_dates_from(rs, map, 1)

\* the rows read_cash_donations returns for the rows of the file, or the
\* exception it raises
read_cash_donations(file_rows, replace) ==
    IF replace
    THEN LET m == _map_rows_to_payees(file_rows)
         IN  IF m.exc # "none" THEN [rows |-> file_rows, exc |-> m.exc]
             ELSE _replace_different_dates(file_rows, m.map)
    ELSE [rows |-> file_rows, exc |-> "none"]

\* what a step of a driver that calls the encoder yields: the stream, the
\* exception, and the encoder operation reached ("none" when the driver itself
\* raised before calling it)
Step(r, op) == [out |-> r.out, exc |-> r.exc, op |-> op]

\* one iteration of the loop of write_txf_records
cash_write_row(o, row) ==
    IF "Date" \notin DOMAIN row THEN Step(Raise(o, "KeyError"), "none")
    ELSE IF row["Date"] = <<>>
    THEN IF "Amount" \notin DOMAIN row THEN Step(Raise(o, "KeyError"), "none")
         ELSE Step(write_cash_donations_summary(o, row["Amount"]),
                   "write_cash_donations_summary")
    ELSE IF "Payee" \notin DOMAIN row \/ "Amount" \notin DOMAIN row
    THEN Step(Raise(o, "KeyError"), "none")
    ELSE Step(write_cash_donation(o, row["Date"], row["Payee"], row["Amount"],
                                  get(row, "Account"), get(row, "Check Number"),
                                  get(row, "Memo"), get(row, "Category")),
              "write_cash_donation")

\* the state a driver starts in, all but its input
InitDriver(name, first) ==
    /\ driver = name
    /\ pc = first
    /\ out = <<>>
    /\ exc = "none"
    /\ omit_header \in BOOLEAN
    /\ rows = <<>>
    /\ idx = 0
    /\ parser = ParserInit
    /\ ndata = 0
    /\ extracted = NoneExtracted
    /\ fed = <<>>
    /\ call = NoCall

InitCash ==
    /\ InitDriver("cash", "read")
    /\ replace_dates \in BOOLEAN
    /\ csv \in CsvFiles(CashColumnSets, CashRows)
    /\ text_boxes = <<>>

\* read_cash_donations; an exception ends the run before anything is written
CashRead ==
    /\ driver = "cash" /\ pc = "read" /\ exc = "none"
    /\ LET r == read_cash_donations(csv.rows, replace_dates)
       IN  /\ rows' = r.rows
           /\ exc' = r.exc
           /\ pc' = IF r.exc = "none" THEN "write_header" ELSE pc
    /\ UNCHANGED <<fed, out, driver, omit_header, replace_dates, csv, idx, parser, ndata,
                   text_boxes, extracted, call>>

\* if not omit_header: taxexchangeformat.write_header('usincometax 2020.0.0')
WriteHeaderAlways(name, next) ==
    /\ driver = name /\ pc = "write_header" /\ exc = "none"
    /\ \E today \in Todays : out' = write_header(out, Program, today).out
    /\ pc' = next
    /\ UNCHANGED <<fed, exc, driver, omit_header, replace_dates, csv, rows, idx, parser, ndata,
                   text_boxes, extracted, call>>

WriteHeaderStep(name, next) ==
    /\ driver = name /\ pc = "write_header" /\ exc = "none"
    /\ IF omit_header THEN out' = out
       ELSE \E today \in Todays : out' = write_header(out, Program, today).out
    /\ pc' = next
    /\ UNCHANGED <<fed, exc, driver, omit_header, replace_dates, csv, rows, idx, parser, ndata,
                   text_boxes, extracted, call>>

CashWriteHeader == WriteHeaderStep("cash", "write_rows")

\* a step that calls the encoder, or raises on the way to it
WriteStep(s, next) ==
    /\ out' = s.out
    /\ exc' = s.exc
    /\ call' = IF s.op = "none" THEN call ELSE [op |-> s.op, raised |-> s.exc]
    /\ pc' = IF s.exc = "none" THEN next ELSE pc

CashWriteRow ==
    /\ driver = "cash" /\ pc = "write_rows" /\ exc = "none"
    /\ idx < Len(rows)
    /\ WriteStep(cash_write_row(out, rows[idx + 1]), pc)
    /\ idx' = idx + 1
    /\ UNCHANGED <<fed, driver, omit_header, replace_dates, csv, rows, parser, ndata,
                   text_boxes, extracted>>

\* the loop is over and write_txf_records returns
RowsWritten(name) ==
    /\ driver = name /\ pc = "write_rows" /\ exc = "none"
    /\ idx = Len(rows)
    /\ pc' = "done"
    /\ UNCHANGED <<fed, out, exc, driver, omit_header, replace_dates, csv, rows, idx, parser,
                   ndata, text_boxes, extracted, call>>

CashReturn == RowsWritten("cash")

NextCash == CashRead \/ CashWriteHeader \/ CashWriteRow \/ CashReturn

SpecCash == InitCash /\ [][NextCash]_vars

---------------------------------------------------------------------------
(* estimatedtaxpayments.py                                                 *)

EstRow(date, amount, state, category) ==
    [k \in {"Date", "Amount", "State", "Category"} |->
        CASE k = "Date" -> date
          [] k = "Amount" -> amount
          [] k = "State" -> state
          [] k = "Category" -> category]

\* a payment, the row of the total, and the same two cut short before State
EstRows ==
    { EstRow(Date1, Amount125, <<"N", "Y">>, <<>>),
      EstRow(<<>>, Amount1200, <<"N", "Y">>, <<>>),
      EstRow(Date2, Amount125, None, None),
      EstRow(<<>>, Amount1200, None, None) }

EstColumnSets ==
    { {"Date", "Amount"}, {"Date", "Amount", "State"}, {"Date", "Amount", "State", "Category"} }

\* one iteration of the loop of the federal branch of write_txf_records
est_write_federal_row(o, row) ==
    IF "Date" \notin DOMAIN row THEN Step(Raise(o, "KeyError"), "none")
    ELSE IF "Amount" \notin DOMAIN row THEN Step(Raise(o, "KeyError"), "none")
    ELSE IF row["Date"] = <<>>
    THEN Step(write_federal_est_tax_summary(o, row["Amount"]), "write_federal_est_tax_summary")
    ELSE Step(write_federal_est_tax_payment(o, row["Date"], row["Amount"],
                                            get(row, "Account"), get(row, "Check Number"),
                                            get(row, "Payee"), get(row, "Memo"),
                                            get(row, "Category")),
              "write_federal_est_tax_payment")

\* one iteration of the loop of the state branch of write_txf_records
est_write_state_row(o, row) ==
    IF "Date" \notin DOMAIN row THEN Step(Raise(o, "KeyError"), "none")
    ELSE IF "Amount" \notin DOMAIN row \/ "State" \notin DOMAIN row
    THEN Step(Raise(o, "KeyError"), "none")
    ELSE IF row["Date"] = <<>>
    THEN Step(write_state_est_tax_summary(o, row["Amount"], row["State"]),
              "write_state_est_tax_summary")
    ELSE Step(write_state_est_tax_payment(o, row["Date"], row["Amount"], row["State"],
                                          get(row, "Account"), get(row, "Check Number"),
                                          get(row, "Payee"), get(row, "Memo"),
                                          get(row, "Category")),
              "write_state_est_tax_payment")

\* rows[0].get('State') is None
IsFederal(rs) == "State" \notin DOMAIN rs[1] \/ rs[1]["State"] = None

InitEst ==
    /\ InitDriver("est", "read")
    /\ replace_dates = FALSE
    /\ csv \in CsvFiles(EstColumnSets, EstRows)
    /\ text_boxes = <<>>

\* read_tax_payments
EstRead ==
    /\ driver = "est" /\ pc = "read" /\ exc = "none"
    /\ rows' = csv.rows
    /\ pc' = "write_header"
    /\ UNCHANGED <<fed, out, exc, driver, omit_header, replace_dates, csv, idx, parser, ndata,
                   text_boxes, extracted, call>>

EstWriteHeaderAlways == WriteHeaderAlways("est", "select")

EstWriteHeader == WriteHeaderStep("est", "select")

\* rows[0] raises IndexError when the file has no rows
EstSelect ==
    /\ driver = "est" /\ pc = "select" /\ exc = "none"
    /\ IF rows = <<>> THEN exc' = "IndexError" /\ pc' = pc
       ELSE exc' = exc /\ pc' = "write_rows"
    /\ UNCHANGED <<fed, out, driver, omit_header, replace_dates, csv, rows, idx, parser, ndata,
                   text_boxes, extracted, call>>

EstWriteRow ==
    /\ driver = "est" /\ pc = "write_rows" /\ exc = "none"
    /\ idx < Len(rows)
    /\ WriteStep(IF IsFederal(rows) THEN est_write_federal_row(out, rows[idx + 1])
                 ELSE est_write_state_row(out, rows[idx + 1]), pc)
    /\ idx' = idx + 1
    /\ UNCHANGED <<fed, driver, omit_header, replace_dates, csv, rows, parser, ndata,
                   text_boxes, extracted>>

EstReturn == RowsWritten("est")

---------------------------------------------------------------------------
(* form1099inthtml.py                                                      *)

PayerInformation ==
    <<"P", "a", "y", "e", "r", " ", "I", "n", "f", "o", "r", "m", "a", "t", "i", "o", "n", ":">>
Form1099Int == <<"F", "o", "r", "m", " ", "1", "0", "9", "9", "-", "I", "N", "T">>
Totals == <<"T", "o", "t", "a", "l", "s", ":">>

\* the text between tags that the parser may be handed
HtmlData ==
    { PayerInformation,
      <<" ", "U", "S", " ", "T", "r", "e", "a", "s", "u", "r", "y", "\n">>,
      Form1099Int \o <<" ", "2", "0", "2", "0">>,
      Totals,
      <<"$", "1", ".", "5", "0">>,
      <<"$", "0", ".", "0", "0">>,
      <<"1", "2">> }

\* the parser after _handle_payer(data), and what that returns
_handle_payer(p, data) ==
    IF data = PayerInformation
    THEN [parser |-> [p EXCEPT !.found_payer_info = TRUE], ret |-> TRUE]
    ELSE IF p.payer_name = None /\ p.found_payer_info
    THEN [parser |-> [p EXCEPT !.payer_name = strip(data)], ret |-> TRUE]
    ELSE [parser |-> p, ret |-> FALSE]

\* _handle_totals without the found_1099_int condition on 'Totals:'
_handle_totals_any_totals(p, data) ==
    IF data = Totals THEN [p EXCEPT !.found_1099_int_totals = TRUE]
    ELSE IF p.found_1099_int_totals
    THEN IF p.box_3 = None /\ startswith(data, <<"$">>) THEN [p EXCEPT !.box_3 = data]
         ELSE IF p.box_4 = None /\ startswith(data, <<"$">>)
         THEN [p EXCEPT !.box_4 = data, !.done = TRUE]
         ELSE p
    ELSE p

_handle_totals(p, data) ==
    IF data = Totals /\ p.found_1099_int THEN [p EXCEPT !.found_1099_int_totals = TRUE]
    ELSE IF p.found_1099_int_totals
    THEN IF p.box_3 = None /\ startswith(data, <<"$">>) THEN [p EXCEPT !.box_3 = data]
         ELSE IF p.box_4 = None /\ startswith(data, <<"$">>)
         THEN [p EXCEPT !.box_4 = data, !.done = TRUE]
         ELSE p
    ELSE p

handle_data(p, data) ==
    IF p.done THEN p
    ELSE LET h == _handle_payer(p, data)
         IN  IF h.ret THEN h.parser
             ELSE IF startswith(data, Form1099Int) THEN [p EXCEPT !.found_1099_int = TRUE]
             ELSE _handle_totals(p, data)

InitHtml ==
    /\ InitDriver("html", "parse")
    /\ replace_dates = FALSE
    /\ csv = NoCsv
    /\ text_boxes = <<>>

\* parser.feed hands the parser the next piece of text
HtmlHandleData ==
    /\ driver = "html" /\ pc = "parse" /\ exc = "none"
    /\ ndata < MaxData
    /\ \E data \in HtmlData : parser' = handle_data(parser, data)
    /\ ndata' = ndata + 1
    /\ UNCHANGED <<fed, out, exc, pc, driver, omit_header, replace_dates, csv, rows, idx,
                   text_boxes, extracted, call>>

\* parse_file returns
HtmlParsed ==
    /\ driver = "html" /\ pc = "parse" /\ exc = "none"
    /\ pc' = "write_header"
    /\ UNCHANGED <<fed, out, exc, driver, omit_header, replace_dates, csv, rows, idx, parser,
                   ndata, text_boxes, extracted, call>>

HtmlWriteHeader == WriteHeaderStep("html", "write_1099int")

HtmlWrite1099Int ==
    /\ driver = "html" /\ pc = "write_1099int" /\ exc = "none"
    /\ WriteStep(Step(write_1099int(out, parser.payer_name, None, parser.box_3, parser.box_4),
                      "write_1099int"), "done")
    /\ UNCHANGED <<fed, driver, omit_header, replace_dates, csv, rows, idx, parser, ndata,
                   text_boxes, extracted>>

---------------------------------------------------------------------------
(* SpecParser: any sequence of handle_data calls on one                    *)
(* TreasuryDirectHtmlParser.  `fed` keeps each datum handed over, with     *)
(* whether _handle_payer took it (as the 'Payer Information:' heading or   *)
(* as the payer name).                                                     *)

InitParser ==
    /\ InitIdle
    /\ driver = "parser"
    /\ pc = "parse"
    /\ call = NoCall

ParserHandleData ==
    /\ driver = "parser" /\ pc = "parse"
    /\ ndata < MaxData
    /\ \E data \in HtmlData :
        /\ parser' = handle_data(parser, data)
        /\ fed' = Append(fed, [data |-> data,
                               taken |-> ~parser.done /\ _handle_payer(parser, data).ret])
    /\ ndata' = ndata + 1
    /\ UNCHANGED <<out, exc, pc, driver, omit_header, replace_dates, csv, rows, idx,
                   text_boxes, extracted, call>>

NextParser == ParserHandleData

SpecParser == InitParser /\ [][NextParser]_vars

---------------------------------------------------------------------------
(* form1099intpdf.py                                                       *)
(*                                                                         *)
(* A text box is its text and its bounding box, y growing upwards.  The    *)
(* page is laid out like Copy B of the form: the payer's name top left     *)
(* under the 'or foreign postal code, and telephone no.' label and above   *)
(* PAYER'S TIN, box 1 in the middle column above box 2, boxes 10 and 11    *)
(* side by side further down the middle column.                            *)

TextBox(text, x0, x1, y0, y1) == [text |-> text, x0 |-> x0, x1 |-> x1, y0 |-> y0, y1 |-> y1]

\* the texts of the six labels are told apart by a short name; each ends in '\n'
Label(name) == <<name, "\n">>

LabelPostal == TextBox(Label("or foreign postal code, and telephone no."), 1, 10, 90, 92)
LabelTin == TextBox(Label("PAYER'S TIN"), 1, 5, 60, 62)
LabelMarketDiscount == TextBox(Label("10 Market discount"), 20, 30, 30, 32)
LabelInterest == TextBox(Label("1 Interest income"), 20, 30, 80, 82)
LabelEarly == TextBox(Label("2 Early withdrawal penalty"), 20, 30, 70, 72)
LabelBondPremium == TextBox(Label("11 Bond premium"), 35, 45, 30, 32)

FormLabels ==
    <<LabelPostal, LabelTin, LabelMarketDiscount, LabelInterest, LabelEarly, LabelBondPremium>>

\* the payer's name as one line or as two lines of one text box
PayerBoxes ==
    { TextBox(<<"B", "a", "n", "k", "\n">>, 2, 8, 70, 80),
      TextBox(<<"A", "\n", "B", "\n">>, 2, 8, 70, 80) }

Box1Boxes == { TextBox(<<"$", "1", ",", "2", "0", "0", ".", "0", "0", "\n">>, 22, 28, 75, 78) }

\* the page as get_text_boxes returns it: the labels, of which one may be
\* missing, then the filled-in boxes that are present
Without(seq, k) == [j \in 1..(Len(seq) - 1) |-> IF j < k THEN seq[j] ELSE seq[j + 1]]

Pages ==
    { labels \o payer \o box_1 :
        labels \in {FormLabels} \cup { Without(FormLabels, k) : k \in 1..Len(FormLabels) },
        payer \in {<<>>} \cup { <<b>> : b \in PayerBoxes },
        box_1 \in {<<>>} \cup { <<b>> : b \in Box1Boxes } }

\* a file without a first page: get_text_boxes returns a name it never bound
NoPage == <<"NoPage">>

_is_east(text_box, text_box_e) == text_box_e.x0 > text_box.x1

_is_northwest(text_box, text_box_nw) ==
    text_box_nw.x0 < text_box.x0 /\ text_box_nw.y0 > text_box.y1

_is_south(text_box, text_box_s) == text_box_s.y1 < text_box.y0

_get_trimmed_text(text_box) == rstrip(text_box.text, {"\n"})

\* does _get_form_text_box find a box with this text, and which is the first
HasFormTextBox(boxes, with_text) == \E k \in 1..Len(boxes) : boxes[k].text = with_text

_get_form_text_box(boxes, with_text) ==
    boxes[CHOOSE k \in 1..Len(boxes) :
            /\ boxes[k].text = with_text
            /\ \A j \in 1..(k - 1) : boxes[j].text # with_text]

\* the search both finders make: the three labels, then the first text box
\* northwest-of, south-of and east-of them; ValueError when a label is missing
find_data(boxes, northwest, south, east) ==
    IF ~HasFormTextBox(boxes, northwest) \/ ~HasFormTextBox(boxes, south)
           \/ ~HasFormTextBox(boxes, east)
    THEN [value |-> None, exc |-> "ValueError"]
    ELSE LET nw == _get_form_text_box(boxes, northwest)
             so == _get_form_text_box(boxes, south)
             ea == _get_form_text_box(boxes, east)
             Found(k) == /\ _is_northwest(boxes[k], nw)
                         /\ _is_south(boxes[k], so)
                         /\ _is_east(boxes[k], ea)
         IN  IF \E k \in 1..Len(boxes) : Found(k)
             THEN LET k == CHOOSE k \in 1..Len(boxes) :
                               Found(k) /\ \A j \in 1..(k - 1) : ~Found(j)
                  IN  [value |-> _get_trimmed_text(boxes[k]), exc |-> "none"]
             ELSE [value |-> None, exc |-> "none"]

find_payer_name_data(boxes) ==
    find_data(boxes, LabelPostal.text, LabelTin.text, LabelMarketDiscount.text)

find_box_1_data(boxes) ==
    find_data(boxes, LabelInterest.text, LabelEarly.text, LabelBondPremium.text)

InitPdf ==
    /\ InitDriver("pdf", "extract")
    /\ replace_dates = FALSE
    /\ csv = NoCsv
    /\ text_boxes \in Pages \cup {NoPage}

\* the first three statements of pdf_to_txf
PdfExtract ==
    /\ driver = "pdf" /\ pc = "extract" /\ exc = "none"
    /\ IF text_boxes = NoPage
       THEN exc' = "UnboundLocalError" /\ extracted' = extracted
       ELSE LET payer == find_payer_name_data(text_boxes)
                box_1 == find_box_1_data(text_boxes)
            IN  IF payer.exc # "none" THEN exc' = payer.exc /\ extracted' = extracted
                ELSE IF box_1.exc # "none"
                THEN exc' = box_1.exc /\ extracted' = extracted
                ELSE /\ exc' = exc
                     /\ extracted' = [payer_name |-> payer.value,
                                      interest_income |-> box_1.value]
    /\ pc' = IF exc' = "none" THEN "write_header" ELSE pc
    /\ UNCHANGED <<fed, out, driver, omit_header, replace_dates, csv, rows, idx, parser, ndata,
                   text_boxes, call>>

PdfWriteHeader == WriteHeaderStep("pdf", "write_1099int")

PdfWrite1099Int ==
    /\ driver = "pdf" /\ pc = "write_1099int" /\ exc = "none"
    /\ WriteStep(Step(write_1099int(out, extracted.payer_name, extracted.interest_income,
                                    None, None), "write_1099int"), "done")
    /\ UNCHANGED <<fed, driver, omit_header, replace_dates, csv, rows, idx, parser, ndata,
                   text_boxes, extracted>>

---------------------------------------------------------------------------
(* SpecDrivers: a run of any of the four programs.                         *)

InitDrivers == InitCash \/ InitEst \/ InitHtml \/ InitPdf

NextEst == EstRead \/ EstWriteHeader \/ EstSelect \/ EstWriteRow \/ EstReturn

NextHtml == HtmlHandleData \/ HtmlParsed \/ HtmlWriteHeader \/ HtmlWrite1099Int

NextPdf == PdfExtract \/ PdfWriteHeader \/ PdfWrite1099Int

NextDrivers == NextCash \/ NextEst \/ NextHtml \/ NextPdf

SpecDrivers == InitDrivers /\ [][NextDrivers]_vars

---------------------------------------------------------------------------
(* Reading the output stream.                                              *)

\* the text of one print call without the two characters of its terminator
Text(chunk) == SubSeq(chunk, 1, Len(chunk) - 2)

Texts(o) == [i \in 1..Len(o) |-> Text(o[i])]

TagTS == <<"T", "S">>
TagTD == <<"T", "D">>
Caret == <<"^">>
VersionLine == <<"V", "0", "4", "2">>

\* the positions of the start tags: no other line of a record or of the header
\* lacks a one-letter prefix, so only a start tag is exactly TS or TD
RecordStarts(o) == { i \in 1..Len(o) : Text(o[i]) \in {TagTS, TagTD} }

\* the lines of the record that starts at position i
RecordAt(o, i) ==
    LET later == { j \in RecordStarts(o) : j > i }
        stop == IF later = {} THEN Len(o) + 1
                ELSE CHOOSE j \in later : \A k \in later : j <= k
    IN  Texts(SubSeq(o, i, stop - 1))

\* the records of the stream, in order
RECURSIVE RecordsFrom(_, _)
RecordsFrom(o, i) ==
    IF i > Len(o) THEN <<>>
    ELSE IF i \in RecordStarts(o) THEN <<RecordAt(o, i)>> \o RecordsFrom(o, i + 1)
    ELSE RecordsFrom(o, i + 1)

Records(o) == RecordsFrom(o, 1)

\* the stream as the characters written
RECURSIVE Flatten(_)
Flatten(o) == IF o = <<>> THEN <<>> ELSE Head(o) \o Flatten(Tail(o))

IsBlank(s) == \A i \in 1..Len(s) : s[i] \in Whitespace

\* s cut or padded with spaces on the right to exactly w characters
Fits(seg, s, w) ==
    /\ Len(seg) = w
    /\ \A k \in 1..w : seg[k] = IF k <= Len(s) THEN s[k] ELSE " "

DetailOps ==
    {"write_cash_donation", "write_federal_est_tax_payment", "write_state_est_tax_payment"}

Format6Ops ==
    {"write_federal_est_tax_payment", "write_state_est_tax_payment",
     "write_federal_est_tax_summary", "write_state_est_tax_summary"}

\* the detail text of the X line of a record, or None
DetailOf(rec) ==
    IF \E i \in 1..Len(rec) : rec[i] # <<>> /\ rec[i][1] = "X"
    THEN LET i == CHOOSE i \in 1..Len(rec) : rec[i] # <<>> /\ rec[i][1] = "X"
         IN  Tail(rec[i])
    ELSE None

\* the category segment of a detail text: what follows the five columns
\* (10, 30, 6, 40, 40 wide) and their four separating spaces
CategorySegment(detail) == SubSeq(detail, 131, Len(detail))

DefaultCategory(op) ==
    CASE op = "write_cash_donation" -> CashDonationCategory
      [] op = "write_federal_est_tax_payment" -> FedEstTaxCategory
      [] op = "write_state_est_tax_payment" -> StaEstTaxCategory

---------------------------------------------------------------------------
(* C1 as claimed: in every Format-6 record the D line is followed by the P *)
(* line, and the $ line comes only after both.                             *)
C1_JurisdictionBeforeAmount ==
    (call.op \in Format6Ops /\ exc = "none") =>
        \A i \in 1..Len(Records(out)) :
            LET rec == Records(out)[i]
            IN  /\ Len(rec) >= 7
                /\ rec[5][1] = "D"
                /\ rec[6][1] = "P"
                /\ rec[7][1] = "$"

(* C1 as amended: every Format-6 record has its lines in the order start   *)
(* tag, N<ref_num>, C<copy>, L<line>, D<date>, $<amount>, P<jurisdiction>, *)
(* optional X<detail>, ^: the amount line comes between the date line and  *)
(* the jurisdiction line.  A record cut short by an error is a prefix of   *)
(* that sequence.                                                          *)
C1_Format6Order ==
    (call.op \in Format6Ops) =>
        /\ Len(Records(out)) = 1
        /\ LET rec == Records(out)[1]
               payment == call.op \in DetailOps
               federal == call.op \in {"write_federal_est_tax_payment",
                                       "write_federal_est_tax_summary"}
               LineOK(k) ==
                   CASE k = 1 -> rec[1] = IF payment THEN TagTD ELSE TagTS
                     [] k = 2 -> rec[2] = IF federal THEN <<"N", "5", "2", "1">>
                                          ELSE <<"N", "5", "2", "2">>
                     [] k = 3 -> rec[3] = <<"C", "1">>
                     [] k = 4 -> rec[4] = <<"L", "1">>
                     [] k = 5 -> rec[5] = <<"D">> \o (IF payment THEN call.date ELSE <<>>)
                     [] k = 6 -> rec[6] = <<"$">> \o _txf_expense(call.amount)
                     [] k = 7 -> rec[7] = <<"P">> \o (IF federal THEN <<"X", "X">>
                                                      ELSE call.state)
                     [] k = 8 -> IF payment THEN rec[8][1] = "X" ELSE rec[8] = Caret
                     [] k = 9 -> payment /\ rec[9] = Caret
                     [] OTHER -> FALSE
           IN  /\ \A k \in 1..Len(rec) : LineOK(k)
               /\ exc = "none" => Len(rec) = IF payment THEN 9 ELSE 8

\* a state payment record was written completely
C1_Witness ==
    /\ call.op = "write_state_est_tax_payment"
    /\ exc = "none"
    /\ Len(Records(out)) = 1
    /\ Len(Records(out)[1]) = 9
    /\ Records(out)[1][6][1] = "$"
    /\ Records(out)[1][7] = <<"P", "N", "Y">>

---------------------------------------------------------------------------
\* the category a detail writer renders: the default of its kind when the
\* caller's category is empty or all whitespace
RenderedCategory == IF IsBlank(call.category) THEN DefaultCategory(call.op) ELSE call.category

\* the detail text of the one record a detail writer wrote
WrittenDetail == DetailOf(Records(out)[1])

DetailWritten == call.op \in DetailOps /\ exc = "none" /\ Len(Records(out)) = 1

(* C2: for every category string passed to write_cash_donation,            *)
(* write_federal_est_tax_payment or write_state_est_tax_payment, the       *)
(* category segment at the end of the X detail line is neither empty nor   *)
(* all whitespace, and it is the default of the kind when the caller's     *)
(* category is empty or all whitespace.                                    *)
C2_CategoryNeverBlank ==
    DetailWritten =>
        LET seg == CategorySegment(WrittenDetail)
        IN  /\ seg # <<>>
            /\ ~IsBlank(seg)
            /\ IsBlank(call.category) => seg = DefaultCategory(call.op)

(* C3 as claimed: each of the six fields, the category included, is cut or *)
(* padded to exactly its width, so the detail string always has the same   *)
(* length.                                                                 *)
C3_AllSixFieldsFixedWidth ==
    DetailWritten =>
        /\ Fits(SubSeq(WrittenDetail, 1, 10), call.date, 10)
        /\ Fits(SubSeq(WrittenDetail, 12, 41), call.account, 30)
        /\ Fits(SubSeq(WrittenDetail, 43, 48), call.check_number, 6)
        /\ Fits(SubSeq(WrittenDetail, 50, 89), call.payee, 40)
        /\ Fits(SubSeq(WrittenDetail, 90, 129), call.memo, 40)
        /\ Fits(CategorySegment(WrittenDetail), RenderedCategory, 15)
        /\ Len(WrittenDetail) = 145

(* C3 as amended: date, account, check number, payee and memo are each     *)
(* left-justified and cut or padded to exactly 10, 30, 6, 40 and 40        *)
(* characters, with one space after the date, account, check number and    *)
(* memo columns; the category is cut to at most 15 characters and is not   *)
(* padded, so the detail string is 130 characters plus the length of the   *)
(* rendered category (1 to 15), not the same length for every input.       *)
C3_DetailLayout ==
    DetailWritten =>
        LET seg == CategorySegment(WrittenDetail)
        IN  /\ Fits(SubSeq(WrittenDetail, 1, 10), call.date, 10)
            /\ WrittenDetail[11] = " "
            /\ Fits(SubSeq(WrittenDetail, 12, 41), call.account, 30)
            /\ WrittenDetail[42] = " "
            /\ Fits(SubSeq(WrittenDetail, 43, 48), call.check_number, 6)
            /\ WrittenDetail[49] = " "
            /\ Fits(SubSeq(WrittenDetail, 50, 89), call.payee, 40)
            /\ Fits(SubSeq(WrittenDetail, 90, 129), call.memo, 40)
            /\ WrittenDetail[130] = " "
            /\ Len(seg) = IF Len(RenderedCategory) < 15 THEN Len(RenderedCategory) ELSE 15
            /\ \A k \in 1..Len(seg) : seg[k] = RenderedCategory[k]
            /\ Len(seg) \in 1..15
            /\ Len(WrittenDetail) = 130 + Len(seg)

\* a donation with a four-letter category and over-long columns was written:
\* its detail string is 134 characters long
C3_Witness ==
    /\ DetailWritten
    /\ call.op = "write_cash_donation"
    /\ call.category = Gift
    /\ Len(call.payee) > 40
    /\ Len(call.memo) = 0
    /\ Len(WrittenDetail) = 134

(* C5: a Format-1 record without a detail string (write_cash_donations_    *)
(* summary) is exactly the 6 lines TS, N280, C1, L1, $<amount>, ^; one     *)
(* with a detail string (write_cash_donation) is exactly 7 lines, the      *)
(* first TD, the sixth X<detail>, the last ^; ref_num is 280 in both.      *)
C5_Format1Lines ==
    /\ call.op = "write_cash_donations_summary" =>
            Records(out) = << <<TagTS, <<"N", "2", "8", "0">>, <<"C", "1">>, <<"L", "1">>,
                               <<"$">> \o _txf_expense(call.amount), Caret>> >>
    /\ call.op = "write_cash_donation" =>
            /\ Len(Records(out)) = 1
            /\ LET rec == Records(out)[1]
               IN  /\ Len(rec) = 7
                   /\ rec[1] = TagTD
                   /\ rec[2] = <<"N", "2", "8", "0">>
                   /\ rec[3] = <<"C", "1">>
                   /\ rec[4] = <<"L", "1">>
                   /\ rec[5] = <<"$">> \o _txf_expense(call.amount)
                   /\ rec[6][1] = "X"
                   /\ Len(rec[6]) > 130
                   /\ rec[7] = Caret

\* a cash donation was written after the header
C5_Witness ==
    /\ call.op = "write_cash_donation"
    /\ Len(out) = 11
    /\ Text(out[1]) = VersionLine
    /\ Text(out[5]) = TagTD
    /\ Text(out[11]) = Caret

\* the Format-3 record of one box of a 1099-INT
BoxRecord(amount, ref_num) ==
    <<TagTS, <<"N">> \o ref_num, <<"C", "1">>, <<"L", "1">>, <<"$">> \o amount,
      <<"P">> \o call.payer, Caret>>

(* C6: write_1099int emits exactly one Format-3 record per present box and *)
(* none for an absent box, in the order box 1, box 3, box 4, with ref_num  *)
(* 287, 288, 616, the payer as the P line, the amount unsigned for boxes 1 *)
(* and 3 and as an expense for box 4.                                      *)
C6_OneRecordPerPresentBox ==
    call.op = "write_1099int" =>
        Records(out) =
            (IF call.box_1 # None
             THEN <<BoxRecord(_txf_income(call.box_1), <<"2", "8", "7">>)>> ELSE <<>>)
            \o (IF call.box_3 # None
                THEN <<BoxRecord(_txf_income(call.box_3), <<"2", "8", "8">>)>> ELSE <<>>)
            \o (IF call.box_4 # None
                THEN <<BoxRecord(_txf_expense(call.box_4), <<"6", "1", "6">>)>> ELSE <<>>)

(* C8: every line of the output stream ends with CR LF: the stream, when   *)
(* not empty, ends with CR LF, and no LF in it lacks a CR right before it. *)
C8_EveryLineEndsCRLF ==
    LET bytes == Flatten(out)
    IN  /\ \A i \in 1..Len(bytes) : bytes[i] = "\n" => (i > 1 /\ bytes[i - 1] = "\r")
        /\ out # <<>> =>
                (Len(bytes) >= 2 /\ bytes[Len(bytes) - 1] = "\r" /\ bytes[Len(bytes)] = "\n")

---------------------------------------------------------------------------
(* C4: _txf_expense(s) is n when n is exactly '0.00' and '-' followed by n *)
(* otherwise, where n is s without its '$', ',' and '-' characters and     *)
(* with a '0' in front when that starts with '.'; so the result holds no   *)
(* '$' or ',' and no '-' except as its first character.                    *)
C4_Expense ==
    call.op = "_txf_expense" =>
        LET kept(c) == c \notin {"$", ",", "-"}
            stripped == SelectSeq(call.amount, kept)
            n == IF stripped # <<>> /\ stripped[1] = "." THEN <<"0">> \o stripped ELSE stripped
            r == call.ret
        IN  /\ r = IF n = <<"0", ".", "0", "0">> THEN n ELSE <<"-">> \o n
            /\ \A i \in 1..Len(r) : r[i] \notin {"$", ","}
            /\ \A i \in 1..Len(r) : r[i] = "-" => i = 1

\* '$1,200.00' was made the expense '-1200.00'
C4_Witness ==
    /\ call.op = "_txf_expense"
    /\ call.amount = Amount1200
    /\ call.ret = <<"-", "1", "2", "0", "0", ".", "0", "0">>

---------------------------------------------------------------------------
\* the positions of the version line that opens a header record
HeaderLines(o) == { i \in 1..Len(o) : Text(o[i]) = VersionLine }

\* the run has passed the statement that writes the header
PastHeader == pc \notin {"read", "parse", "extract", "write_header"}

\* at most one header, in front of everything else, and none when omitted
HeaderAtMostOnceAndFirst ==
    /\ Cardinality(HeaderLines(out)) <= 1
    /\ HeaderLines(out) \subseteq {1}
    /\ HeaderLines(out) = {1} =>
            /\ Len(out) >= 4
            /\ Text(out[2]) = <<"A">> \o Program
            /\ Text(out[3])[1] = "D"
            /\ Text(out[4]) = Caret
            /\ \A i \in RecordStarts(out) : i > 4
    /\ omit_header => HeaderLines(out) = {}

(* C7 as claimed: in every run of each driver the header is written at     *)
(* most once and before every data record, never when omit_header is true, *)
(* and exactly once when omit_header is false: a run that has ended has    *)
(* written it.                                                             *)
C7_HeaderExactlyOnceInEveryRun ==
    /\ HeaderAtMostOnceAndFirst
    /\ (~omit_header /\ (pc = "done" \/ exc # "none")) => HeaderLines(out) = {1}

(* C7 as amended: in every run of each driver the header is written at     *)
(* most once and before every data record, and never when omit_header is   *)
(* true; when omit_header is false it is written exactly once in every run *)
(* that gets past reading its input, and a run that fails while reading    *)
(* its input (a missing form label, a file without a page, a row without a *)
(* payee under replace_dates) ends with nothing written.                   *)
C7_HeaderOnceAfterReading ==
    /\ HeaderAtMostOnceAndFirst
    /\ (~omit_header /\ PastHeader) => HeaderLines(out) = {1}
    /\ ~PastHeader => out = <<>>

\* the estimated-tax driver has written the header and two records and returned
C7_Witness ==
    /\ driver = "est"
    /\ pc = "done"
    /\ ~omit_header
    /\ HeaderLines(out) = {1}
    /\ Len(Records(out)) = 2

(* C9: no encoder write operation raises an error for the field values its *)
(* callers hand it, and every record whose start tag is in the stream ends *)
(* with its ^ line.                                                        *)
C9_EncoderNeverRaises ==
    /\ call.op # "none" => call.raised = "none"
    /\ \A i \in 1..Len(Records(out)) :
            Records(out)[i][Len(Records(out)[i])] = Caret

(* C10: after read_cash_donations with replace_dates, the rows are as many *)
(* and in the same order as in the file and differ from them in Date only; *)
(* a row has Date 'Various' if another row of its payee has a different    *)
(* Date in the file, and has the Date of the file otherwise.               *)
C10_ReplaceDifferentDates ==
    (driver = "cash" /\ replace_dates /\ pc # "read") =>
        /\ Len(rows) = Len(csv.rows)
        /\ \A i \in 1..Len(rows) :
                /\ DOMAIN rows[i] = DOMAIN csv.rows[i]
                /\ \A k \in DOMAIN rows[i] \ {"Date"} : rows[i][k] = csv.rows[i][k]
                /\ LET mixed == \E j \in 1..Len(rows) :
                                    /\ csv.rows[j]["Payee"] = csv.rows[i]["Payee"]
                                    /\ csv.rows[j]["Date"] # csv.rows[i]["Date"]
                   IN  rows[i]["Date"] = IF mixed THEN Various ELSE csv.rows[i]["Date"]

\* three rows were read: two of one payee on different dates, now 'Various',
\* and one of another payee, whose date is kept
C10_Witness ==
    /\ driver = "cash" /\ replace_dates /\ pc = "done"
    /\ Len(rows) = 3
    /\ csv.rows[1]["Payee"] = Payee1 /\ csv.rows[1]["Date"] = Date1
    /\ csv.rows[2]["Payee"] = Payee2 /\ csv.rows[2]["Date"] = Date1
    /\ csv.rows[3]["Payee"] = Payee1 /\ csv.rows[3]["Date"] = Date2
    /\ rows[1]["Date"] = Various
    /\ rows[2]["Date"] = Date1
    /\ rows[3]["Date"] = Various

---------------------------------------------------------------------------
(* C11: in the cash-donations driver, with or without replace_dates, every *)
(* CSV row is written as exactly one record in input order, and a row      *)
(* whose Date is empty in the CSV is written as a summary record (TS, no X *)
(* line), never as a detail record.                                        *)
C11_EmptyDateRowIsSummary ==
    (driver = "cash" /\ exc = "none" /\ pc \in {"write_rows", "done"}) =>
        /\ Len(Records(out)) = idx
        /\ pc = "done" => idx = Len(csv.rows)
        /\ \A i \in 1..idx :
                /\ Records(out)[i][5] = <<"$">> \o _txf_expense(csv.rows[i]["Amount"])
                /\ csv.rows[i]["Date"] = <<>> =>
                        /\ Records(out)[i][1] = TagTS
                        /\ DetailOf(Records(out)[i]) = None

---------------------------------------------------------------------------
(* Reading the history of handle_data calls.                               *)

IsDollar(k) == startswith(fed[k].data, <<"$">>)

\* the positions of 'Totals:' data that follow a 'Form 1099-INT...' datum
TotalsAfterForm ==
    {j \in 1..Len(fed) :
        /\ fed[j].data = Totals
        /\ \E i \in 1..(j - 1) : startswith(fed[i].data, Form1099Int)}

\* the same, counting only data that _handle_payer did not take
UntakenTotalsAfterForm ==
    {j \in 1..Len(fed) :
        /\ fed[j].data = Totals /\ ~fed[j].taken
        /\ \E i \in 1..(j - 1) : startswith(fed[i].data, Form1099Int) /\ ~fed[i].taken}

Least(S) == CHOOSE x \in S : \A y \in S : x <= y

\* the n-th member of a set of positions, None when it has fewer than n
NthDatum(S, n) ==
    IF Cardinality(S) < n THEN None
    ELSE fed[CHOOSE x \in S : Cardinality({y \in S : y < x}) = n - 1].data

DollarsAfter(j) == {k \in (j + 1)..Len(fed) : IsDollar(k)}

UntakenDollarsAfter(j) == {k \in (j + 1)..Len(fed) : IsDollar(k) /\ ~fed[k].taken}

ParserStateBasics ==
    /\ parser.box_4 # None => parser.box_3 # None
    /\ parser.box_3 # None => TotalsAfterForm # {}
    /\ parser.done <=> parser.box_4 # None

ParserStepBasics ==
    /\ parser.payer_name # None => parser'.payer_name = parser.payer_name
    /\ parser.box_3 # None => parser'.box_3 = parser.box_3
    /\ parser.box_4 # None => parser'.box_4 = parser.box_4
    /\ parser.done => parser' = parser

(* C12 as stated: for any sequence of handle_data calls, box_4 is set only *)
(* if box_3 is, box_3 only if a 'Totals:' was seen after a 'Form 1099-INT' *)
(* datum, done holds exactly when box_4 is set, payer_name, box_3 and      *)
(* box_4 never change once set, box_3 and box_4 (when set) are the first   *)
(* and second '$'-prefixed data after such a 'Totals:', and a done parser  *)
(* is left unchanged by further calls.                                     *)
C12_BoxesAreFirstDollarsAfterTotals ==
    /\ [](driver = "parser" =>
            /\ ParserStateBasics
            /\ parser.box_3 # None =>
                    \E j \in TotalsAfterForm :
                        /\ parser.box_3 = NthDatum(DollarsAfter(j), 1)
                        /\ parser.box_4 # None =>
                                parser.box_4 = NthDatum(DollarsAfter(j), 2))
    /\ [][driver = "parser" => ParserStepBasics]_vars

(* C12, amended: the same, with box_3 and box_4 being the first and second *)
(* '$'-prefixed data that _handle_payer did not take, after the first      *)
(* untaken 'Totals:' that follows an untaken 'Form 1099-INT' datum; they   *)
(* are unset exactly while no such datum has been handed over.             *)
C12_BoxesAreFirstUntakenDollarsAfterTotals ==
    /\ [](driver = "parser" =>
            /\ ParserStateBasics
            /\ IF UntakenTotalsAfterForm = {}
               THEN parser.box_3 = None /\ parser.box_4 = None
               ELSE LET j == Least(UntakenTotalsAfterForm)
                    IN  /\ parser.box_3 = NthDatum(UntakenDollarsAfter(j), 1)
                        /\ parser.box_4 = NthDatum(UntakenDollarsAfter(j), 2))
    /\ [][driver = "parser" => ParserStepBasics]_vars

\* a parser that is done was handed one more '$' datum and ignored it
C12_Witness ==
    /\ driver = "parser"
    /\ parser.done
    /\ parser.box_3 # None /\ parser.box_4 # None
    /\ Len(fed) > 1
    /\ IsDollar(Len(fed))
    /\ parser.box_4 # fed[Len(fed)].data

====
